---- MODULE Spec2Model ----
(***************************************************************************)
(* EpsilonGreedySense (sensepy/sense.py): the epsilon-greedy sensing       *)
(* policy built on SensingAlgorithm.  One round (step) fits the estimator, *)
(* scores the candidate regions, takes the top-k, senses each chosen       *)
(* region, feeds the record to the estimator and to the dataset, and       *)
(* returns (cost, count-or-points, chosen regions, chosen indices).        *)
(*                                                                         *)
(* The process, the estimator and the cost function are collaborators      *)
(* outside sense.py.  Their answers (samples, mean values, failures) are   *)
(* nondeterministic choices; the estimator is taken to keep its own list   *)
(* of ingested records (est_data) and a rate that is None or fitted.       *)
(*                                                                         *)
(* A region is a number in Regions.  The points sampled in region r are    *)
(* written r, so an observation of region r is None or a sequence r,..,r   *)
(* of PointCounts points.  A score is a rational <<num, den>>, den > 0.    *)
(* An optional value (None or a value) is a record [some, v].              *)
(***************************************************************************)
EXTENDS Integers, Sequences, FiniteSets, TLC

\* ---------------------------------------------------------------- bounds
MaxData == 2    \* records the estimator ingests in a run
MaxT    == 2    \* scoring calls in a run
MaxTopK == 2    \* configured topk

\* ------------------------------------------------------ values and inputs
Dt == 10

None    == [some |-> FALSE, v |-> <<>>]
Some(x) == [some |-> TRUE, v |-> x]

CostFunctions == {<<1, 2, 4>>}
Regions  == 1..3
MeanVals == {0, 1, 2}
RandVals == {0, 1}
PScale   == 2
PVals    == 0..(PScale - 1)
Schedules == {"zero", "one"}

PointCounts == {0, 2}
Points(r, c) == [i \in 1..c |-> r]
ObsVals(r)   == {None} \cup {Some(Points(r, c)) : c \in PointCounts}
SensedRecords(r) == {<<r, o, Dt>> : o \in ObsVals(r)}
Records      == UNION {SensedRecords(r) : r \in Regions}

SeqsUpTo(S, n) == UNION {[1..m -> S] : m \in 0..n}
IsInjective(s) == \A i, j \in DOMAIN s : s[i] = s[j] => i = j
\* the candidate lists passed to step: the prefixes of two orders of the regions
Orders         == {<<1, 2, 3>>, <<3, 1, 2>>}
CandidateLists == {SubSeq(o, 1, m) : o \in Orders, m \in 0..Cardinality(Regions)}

VARIABLES
    topk, epsilon, w,            \* configuration of the policy
    data, t,                     \* the policy's dataset (None or a list) and round counter
    est_data, rate,              \* estimator: ingested records; rate is not None
    pc, op,                      \* position in the running call; the operation called
    actions, scores, best_indices, sensed_actions, n, cost, points_loc,
    result,                      \* what the last call returned or raised
    p, means, branch, eps_arg,   \* the scoring call in progress: draw, mean_set answers,
                                 \* score loop taken, argument given to the schedule
    calls,                       \* number of acquisition_function calls so far
    trace,                       \* the events of the running call, in order
    data0, est0, t0              \* data, est_data and t when the running call began

vars == <<topk, epsilon, w, data, t, est_data, rate, pc, op, actions, scores,
          best_indices, sensed_actions, n, cost, points_loc, result,
          p, means, branch, eps_arg, calls, trace, data0, est0, t0>>

config == <<topk, epsilon, w>>
locals == <<actions, scores, best_indices, sensed_actions, n, cost, points_loc>>

NoResult  == [kind |-> "none"]
Raised(e) == [kind |-> "raise", error |-> e]
Rest      == {"idle", "returned", "raised"}

\* --------------------------------------------------------- pure functions

\* self.epsilon(t), in units of 1/PScale, for the two constant schedules
Epsilon(sched, tt) == IF sched = "zero" THEN 0 ELSE PScale

\* p > epsilon, for p = pv / PScale
ExceedsEpsilon(pv, sched, tt) == pv > Epsilon(sched, tt)

\* line 179
NextT(tt) == tt + 1

ScheduleArgStale(tt) == tt

\* line 182: the schedule is given self.t as line 179 left it
ScheduleArg(tt) == NextT(tt)

BranchIgnoringRate(pv, sched, tt, fitted) ==
    IF ExceedsEpsilon(pv, sched, tt) THEN "exploit" ELSE "explore"

\* which of the three score loops of acquisition_function runs
Branch(pv, sched, tt, fitted) ==
    IF ExceedsEpsilon(pv, sched, tt)
    THEN IF fitted THEN "exploit" ELSE "fallback"
    ELSE "explore"

ExploitScoresNoCost(acts, mv, cf) == [i \in DOMAIN acts |-> <<mv[i], 1>>]

\* scores.append(float(map / self.w(action)))
ExploitScores(acts, mv, cf) == [i \in DOMAIN acts |-> <<mv[i], cf[acts[i]]>>]
RandomScores(rv)            == [i \in DOMAIN rv |-> <<rv[i], 1>>]

ScoreLeq(a, b) == a[1] * b[2] <= b[1] * a[2]
ScoreEq(a, b)  == a[1] * b[2] = b[1] * a[2]

\* torch.topk(scores, k) on a 1-D tensor: k distinct 0-based indices, values in
\* descending order, no unselected value above a selected one; ties in any order.
TopK(sc, kk) ==
    {idx \in [1..kk -> 0..(Len(sc) - 1)] :
        /\ IsInjective(idx)
        /\ \A j \in 1..(kk - 1) : ScoreLeq(sc[idx[j + 1] + 1], sc[idx[j] + 1])
        /\ \A i \in 1..Len(sc) :
              (\A j \in 1..kk : idx[j] # i - 1) =>
                  \A j \in 1..kk : ScoreLeq(sc[i], sc[idx[j] + 1])}

SensedActionsFirstK(acts, idx) == [j \in DOMAIN idx |-> acts[j]]

SensedActionsAll(acts, idx) == acts

\* lines 91-94
SensedActions(acts, idx) == [j \in DOMAIN idx |-> acts[idx[j] + 1]]

MergeOverwrite(buf, obs) == IF obs.some THEN obs ELSE buf

\* lines 110-113
Merge(buf, obs) ==
    IF ~buf.some /\ obs.some THEN obs
    ELSE IF buf.some /\ obs.some THEN Some(buf.v \o obs.v)
    ELSE buf

RECURSIVE CountLoop(_, _, _)
CountLoop(d, i, total) ==
    IF i > Len(d) THEN total
    ELSE CountLoop(d, i + 1, IF d[i][2].some THEN total + Len(d[i][2].v) ELSE total)

count_events_null_is_one(d) == CountLoop(d, 1, 0) + Cardinality({i \in DOMAIN d : ~d[i][2].some})

count_events(d) == CountLoop(d, 1, 0)

\* add_data: what the two list mutations leave behind.  ingest_fails: the
\* estimator's add_data_point raises.
add_data_append_first(d, e, rec, ingest_fails) ==
    IF ~d.some THEN [data |-> d, est |-> e, error |-> "AttributeError"]
    ELSE IF ingest_fails THEN [data |-> Some(Append(d.v, rec)), est |-> e, error |-> "IngestError"]
    ELSE [data |-> Some(Append(d.v, rec)), est |-> Append(e, rec), error |-> "none"]

add_data_prepend(d, e, rec, ingest_fails) ==
    IF ingest_fails THEN [data |-> d, est |-> e, error |-> "IngestError"]
    ELSE IF ~d.some THEN [data |-> d, est |-> Append(e, rec), error |-> "AttributeError"]
    ELSE [data |-> Some(<<rec>> \o d.v), est |-> Append(e, rec), error |-> "none"]

add_data_no_append(d, e, rec, ingest_fails) ==
    IF ingest_fails THEN [data |-> d, est |-> e, error |-> "IngestError"]
    ELSE [data |-> d, est |-> Append(e, rec), error |-> "none"]

add_data(d, e, rec, ingest_fails) ==
    IF ingest_fails THEN [data |-> d, est |-> e, error |-> "IngestError"]
    ELSE IF ~d.some THEN [data |-> d, est |-> Append(e, rec), error |-> "AttributeError"]
    ELSE [data |-> Some(Append(d.v, rec)), est |-> Append(e, rec), error |-> "none"]

\* estimator.load_data(self.data)
load_data(d) == IF d.some THEN d.v ELSE <<>>

\* ------------------------------------------------------------------ Init
Init ==
    /\ topk \in 1..MaxTopK
    /\ epsilon \in Schedules
    /\ w \in CostFunctions
    /\ data \in {None, Some(<<>>)}
    /\ est_data = load_data(data)
    /\ rate \in BOOLEAN
    /\ t = 0
    /\ pc = "idle" /\ op = "init"
    /\ actions = <<>> /\ scores = <<>> /\ best_indices = <<>> /\ sensed_actions = <<>>
    /\ n = 0 /\ cost = 0 /\ points_loc = None
    /\ result = NoResult
    /\ p = 0 /\ means = <<>> /\ branch = "none" /\ eps_arg = 0
    /\ calls = 0 /\ trace = <<>>
    /\ data0 = data /\ est0 = est_data /\ t0 = 0

Enter == data0' = data /\ est0' = est_data /\ t0' = t

ResetLocals ==
    /\ scores' = <<>> /\ best_indices' = <<>> /\ sensed_actions' = <<>>
    /\ n' = 0 /\ cost' = 0 /\ points_loc' = None
    /\ p' = 0 /\ means' = <<>> /\ branch' = "none" /\ eps_arg' = 0

\* --------------------------------------------------------------- step
AfterFitSwallowed(fails) == "fitted"

AfterFitSkipsScoring(fails) == IF fails THEN "raised" ELSE "scored"

\* a failing fit_gp leaves step at line 83
AfterFit(fails) == IF fails THEN "raised" ELSE "fitted"

\* step(actions): line 83, self.fit_estimator() -> self.estimator.fit_gp()
StepFit ==
    /\ pc \in Rest
    /\ t < MaxT
    /\ Len(est_data) + topk <= MaxData
    /\ \E acts \in CandidateLists : actions' = acts
    /\ op' = "step"
    /\ ResetLocals /\ Enter
    /\ \E fails \in BOOLEAN :
         /\ pc' = AfterFit(fails)
         /\ trace' = <<IF fails THEN "fit_raise" ELSE "fit">>
         /\ result' = IF pc' = "raised" THEN Raised("FitError") ELSE NoResult
         /\ IF fails THEN rate' = rate ELSE rate' \in BOOLEAN
    /\ UNCHANGED <<config, data, t, est_data, calls>>

\* line 86, acquisition_function (lines 179-197)
StepScore ==
    /\ pc = "fitted"
    /\ t' = NextT(t)
    /\ calls' = calls + 1
    /\ eps_arg' = ScheduleArg(t)
    /\ \E pv \in PVals :
         /\ p' = pv
         /\ branch' = Branch(pv, epsilon, eps_arg', rate)
         /\ IF branch' = "exploit"
            THEN \E mv \in [DOMAIN actions -> MeanVals] :
                   /\ means' = mv
                   /\ scores' = ExploitScores(actions, mv, w)
            ELSE \E rv \in [DOMAIN actions -> RandVals] :
                   /\ means' = <<>>
                   /\ scores' = RandomScores(rv)
    /\ pc' = "scored"
    /\ trace' = Append(trace, "score")
    /\ UNCHANGED <<config, data, est_data, rate, op, actions, best_indices,
                   sensed_actions, n, cost, points_loc, result, data0, est0, t0>>

\* lines 89-99: torch.topk, the chosen regions, the verbose printout
StepSelect ==
    /\ pc = "scored"
    /\ trace' = Append(trace, "select")
    /\ scores' = <<>> /\ p' = 0 /\ eps_arg' = 0
    /\ \/ /\ topk > Len(scores)
          /\ pc' = "raised" /\ result' = Raised("RuntimeError")
          /\ UNCHANGED <<best_indices, sensed_actions>>
       \/ /\ topk <= Len(scores)
          /\ \E idx \in TopK(scores, topk) :
               /\ best_indices' = idx
               /\ sensed_actions' = SensedActions(actions, idx)
          /\ \E verbose \in BOOLEAN :
               IF verbose /\ ~data.some
               THEN pc' = "raised" /\ result' = Raised("TypeError")
               ELSE pc' = "selected" /\ result' = NoResult
    /\ UNCHANGED <<config, data, t, est_data, rate, op, actions, n, cost, points_loc,
                   means, branch, calls, data0, est0, t0>>

LoopFailureRollsBack(cur, start) == start

\* lines 105-113 stand in no try block: a raise inside the loop leaves the list
\* cur as the earlier iterations made it, not as it was at the start of the call
LoopFailure(cur, start) == cur

AddCostUnit(c, cf, r) == c + 1

\* line 108
AddCost(c, cf, r) == c + cf[r]

\* lines 105-113: one iteration of the sensing loop.  process.sample may raise;
\* add_data may raise; torch.cat (line 113, reached when the buffer and the
\* observation are both present) may raise.
StepSense ==
    /\ pc = "selected"
    /\ n < Len(sensed_actions)
    /\ LET action == sensed_actions[n + 1] IN
       \/ /\ pc' = "raised" /\ result' = Raised("SampleError")
          /\ trace' = Append(trace, "sense")
          /\ data' = LoopFailure(data, data0)
          /\ est_data' = LoopFailure(est_data, est0)
          /\ UNCHANGED <<n, cost, points_loc>>
       \/ \E rec \in SensedRecords(action), ingest_fails \in BOOLEAN :
            LET out == add_data(data, est_data, rec, ingest_fails) IN
            /\ data' = out.data
            /\ est_data' = out.est
            /\ trace' = trace \o <<"sense", "add_data">>
            /\ IF out.error # "none"
               THEN /\ pc' = "raised" /\ result' = Raised(out.error)
                    /\ UNCHANGED <<n, cost, points_loc>>
               ELSE \/ /\ pc' = "selected" /\ result' = NoResult
                       /\ n' = n + 1
                       /\ cost' = AddCost(cost, w, rec[1])
                       /\ points_loc' = Merge(points_loc, rec[2])
                    \/ /\ points_loc.some /\ rec[2].some
                       /\ pc' = "raised" /\ result' = Raised("CatError")
                       /\ cost' = AddCost(cost, w, rec[1])
                       /\ UNCHANGED <<n, points_loc>>
    /\ means' = <<>> /\ branch' = "none"
    /\ UNCHANGED <<config, t, rate, op, actions, scores, best_indices, sensed_actions,
                   p, eps_arg, calls, data0, est0, t0>>

\* lines 115-124.  The points argument is read here only and changes no state:
\* result.count is the second component returned for points = False,
\* result.raw the one returned for points = True.
StepReturn ==
    /\ pc = "selected"
    /\ n = Len(sensed_actions)
    /\ result' = [kind |-> "return",
                   cost |-> cost,
                   count |-> IF points_loc.some THEN Len(points_loc.v) ELSE 0,
                   raw |-> points_loc,
                   sensed_actions |-> sensed_actions,
                   best_indices |-> best_indices]
    /\ pc' = "returned"
    /\ trace' = Append(trace, "return")
    /\ means' = <<>> /\ branch' = "none"
    /\ UNCHANGED <<config, data, t, est_data, rate, op, locals, p, eps_arg, calls,
                   data0, est0, t0>>

\* ------------------------------------------------------ the other calls
AddData ==
    /\ pc \in Rest
    /\ Len(est_data) < MaxData
    /\ \E rec \in Records, ingest_fails \in BOOLEAN :
         LET out == add_data(data, est_data, rec, ingest_fails) IN
         /\ data' = out.data
         /\ est_data' = out.est
         /\ IF out.error # "none"
            THEN pc' = "raised" /\ result' = Raised(out.error)
            ELSE pc' = "returned" /\ result' = [kind |-> "return", record |-> rec]
    /\ op' = "add_data"
    /\ actions' = <<>> /\ ResetLocals /\ Enter /\ trace' = <<>>
    /\ UNCHANGED <<config, t, rate, calls>>

CountEventsClearsData ==
    /\ pc \in Rest
    /\ IF data.some
       THEN pc' = "returned" /\ result' = [kind |-> "return", total |-> count_events(data.v)]
       ELSE pc' = "raised" /\ result' = Raised("TypeError")
    /\ data' = IF data.some THEN Some(<<>>) ELSE data
    /\ op' = "count_events"
    /\ actions' = <<>> /\ ResetLocals /\ Enter /\ trace' = <<>>
    /\ UNCHANGED <<config, t, est_data, rate, calls>>

\* lines 63-67
CountEvents ==
    /\ pc \in Rest
    /\ IF data.some
       THEN pc' = "returned" /\ result' = [kind |-> "return", total |-> count_events(data.v)]
       ELSE pc' = "raised" /\ result' = Raised("TypeError")
    /\ op' = "count_events"
    /\ actions' = <<>> /\ ResetLocals /\ Enter /\ trace' = <<>>
    /\ UNCHANGED <<config, data, t, est_data, rate, calls>>

\* lines 135-137: no test of the estimator's rate; mean_rate answers or raises
BestPointSoFar ==
    /\ pc \in Rest
    /\ \/ pc' = "returned" /\ result' = [kind |-> "return", fitted |-> rate]
       \/ pc' = "raised" /\ result' = Raised("MeanRateError")
    /\ op' = "best_point_so_far"
    /\ actions' = <<>> /\ ResetLocals /\ Enter /\ trace' = <<>>
    /\ UNCHANGED <<config, data, t, est_data, rate, calls>>

Next ==
    \/ StepFit \/ StepScore \/ StepSelect \/ StepSense \/ StepReturn
    \/ AddData \/ CountEvents \/ BestPointSoFar

Spec == Init /\ [][Next]_vars

\* ------------------------------------------------------------- properties
IsPrefix(a, b) == Len(a) <= Len(b) /\ SubSeq(b, 1, Len(a)) = a

StepReturned == op = "step" /\ pc = "returned"

\* the records the running call has appended to the dataset
Appended == SubSeq(data.v, Len(data0.v) + 1, Len(data.v))

\* C1: a step that completes with topk = k <= m returns exactly k regions and
\* k indices, every index in [0, m), no index twice, and the j-th region is
\* the candidate at the j-th returned index of the list passed to the call.
C1_TopKContract ==
    StepReturned =>
        LET idx == result.best_indices
            reg == result.sensed_actions
            m   == Len(actions)
        IN /\ topk <= m
           /\ Len(reg) = topk /\ Len(idx) = topk
           /\ \A j \in 1..topk : idx[j] \in 0..(m - 1)
           /\ \A i, j \in 1..topk : idx[i] = idx[j] => i = j
           /\ \A j \in 1..topk : reg[j] = actions[idx[j] + 1]

C1_Witness ==
    /\ StepReturned /\ topk = 2 /\ Len(actions) = 3
    /\ result.best_indices[1] > result.best_indices[2]

\* C2: with a schedule that is always 0, every scoring call made while the
\* estimator holds a fitted rate takes the exploitation branch for every draw
\* p in [0, 1): the scores are mean value / cost and never random.
C2_ZeroScheduleExploits ==
    (pc = "scored" /\ epsilon = "zero" /\ rate /\ actions # <<>>) =>
        /\ branch = "exploit"
        /\ Len(means) = Len(actions)
        /\ \A i \in DOMAIN actions : ScoreEq(scores[i], <<means[i], w[actions[i]]>>)

\* C3: while the estimator holds no fitted rate the scores are random whatever
\* the schedule and the draw are, and mean_set is never called.
C3_UnfittedIsRandom ==
    (pc = "scored" /\ ~rate) =>
        /\ branch \in {"fallback", "explore"}
        /\ means = <<>>
        /\ Len(scores) = Len(actions)
        /\ \A i \in DOMAIN scores : scores[i][2] = 1 /\ scores[i][1] \in RandVals

C3_Witness ==
    /\ pc = "scored" /\ ~rate /\ epsilon = "zero" /\ p > 0
    /\ branch = "fallback" /\ Len(scores) >= 2

RECURSIVE ConcatPresent(_)
ConcatPresent(recs) ==
    IF recs = <<>> THEN <<>>
    ELSE (IF Head(recs)[2].some THEN Head(recs)[2].v ELSE <<>>) \o ConcatPresent(Tail(recs))

Present(recs) == {j \in DOMAIN recs : recs[j][2].some}

\* C4: the raw points of a round are the concatenation, in selection order, of
\* the observations of the selected regions that are not null (an empty
\* observation is not null); one non-null observation is returned as it is;
\* all null gives raw points null and count 0.
C4_NullSafeMerge ==
    StepReturned =>
        LET recs == Appended IN
        /\ Len(recs) = Len(result.sensed_actions)
        /\ result.raw = IF Present(recs) = {} THEN None ELSE Some(ConcatPresent(recs))
        /\ \A j \in Present(recs) : Present(recs) = {j} => result.raw = recs[j][2]
        /\ Present(recs) = {} => result.raw = None /\ result.count = 0

C4_Witness ==
    /\ StepReturned /\ topk = 2
    /\ Present(Appended) = {1, 2}
    /\ Len(result.raw.v) = 4 /\ result.raw.v[1] > result.raw.v[4]

PointSlots(d) == UNION {{<<i, j>> : j \in 1..Len(d[i][2].v)} : i \in Present(d)}

\* C5: count_events returns the sum of the point counts of the records of the
\* dataset; a null observation and an empty observation both count 0.
C5_CountEvents ==
    (op = "count_events" /\ pc = "returned") =>
        /\ data.some
        /\ result.total = Cardinality(PointSlots(data.v))

C5_Witness ==
    /\ op = "count_events" /\ pc = "returned"
    /\ \E i, j \in DOMAIN data.v : ~data.v[i][2].some /\ Len(data.v[j][2].v) >= 1

\* C6: the dataset is append-only: the dataset before a call is a prefix of the
\* dataset at every point of the call, and the records a step appends are those
\* of the regions it selected, in selection order.
C6_AppendOnly ==
    /\ data.some = data0.some
    /\ IsPrefix(data0.v, data.v)
    /\ StepReturned =>
          /\ Len(Appended) = Len(sensed_actions)
          /\ \A j \in DOMAIN sensed_actions : Appended[j][1] = sensed_actions[j]

C6_Witness ==
    /\ StepReturned /\ Len(data0.v) = 1 /\ Len(data.v) = 2
    /\ data.v[1][1] > data.v[2][1]

\* C7: t starts at 0, grows by exactly 1 on every scoring call (so by exactly 1
\* in a completed step), is never decreased or reset, and is incremented before
\* the schedule is evaluated: the n-th call evaluates the schedule at n.
C7_RoundCounter ==
    /\ t = calls
    /\ t >= t0
    /\ pc = "scored" => eps_arg = calls /\ eps_arg >= 1 /\ t = t0 + 1
    /\ StepReturned => t = t0 + 1

C7_Witness == pc = "scored" /\ calls = 2 /\ eps_arg = 2

\* C8: add_data feeds the estimator first and appends to the dataset second;
\* when the estimator's ingestion fails the dataset is as it was before the call.
C8_IngestFailureLeavesData ==
    /\ (pc = "raised" /\ result.error = "IngestError") =>
          /\ Len(data.v) = Len(data0.v) + n
          /\ Len(est_data) = Len(est0) + n
          /\ op = "add_data" => data = data0 /\ est_data = est0
    /\ (pc = "raised" /\ result.error = "AttributeError") =>
          /\ data = data0
          /\ Len(est_data) = Len(est0) + n + 1

C8_Witness ==
    /\ op = "add_data" /\ pc = "raised" /\ result.error = "IngestError"
    /\ data.some /\ Len(data.v) >= 1

\* C9: best_point_so_far called while the estimator has no fitted rate fails
\* with NotFittedError and never returns a coordinate.
C9_NotFittedError ==
    (op = "best_point_so_far" /\ ~rate) =>
        pc = "raised" /\ result = Raised("NotFittedError")

\* C10: a failing fit_estimator leaves step with its error, after one attempt
\* and before scoring: nothing is scored, selected or sensed, and the dataset,
\* the estimator's records and t are as before the call.
C10_FitFailureAborts ==
    (op = "step" /\ trace # <<>> /\ trace[1] = "fit_raise") =>
        /\ pc = "raised" /\ result = Raised("FitError")
        /\ trace = <<"fit_raise">>
        /\ scores = <<>> /\ best_indices = <<>> /\ sensed_actions = <<>> /\ n = 0
        /\ data = data0 /\ est_data = est0 /\ t = t0 /\ calls = t0

C10_Witness ==
    /\ op = "step" /\ pc = "raised" /\ result = Raised("FitError")
    /\ Len(data.v) >= 1 /\ t >= 1

\* the records the running call has fed to the estimator
EstAppended == SubSeq(est_data, Len(est0) + 1, Len(est_data))

LoopErrors == {"SampleError", "IngestError", "AttributeError", "CatError"}
InLoopFailure == op = "step" /\ pc = "raised" /\ result.error \in LoopErrors

SenseEvents == Cardinality({i \in DOMAIN trace : trace[i] = "sense"})

\* C11: when sensing or merging the i-th selected region fails, the error
\* leaves step, the records of the i-1 regions sensed before it stay in the
\* dataset and in the estimator, and no later region is sensed.
C11_PartialProgressKept ==
    InLoopFailure =>
        /\ n < Len(sensed_actions)
        /\ SenseEvents = n + 1
        /\ IsPrefix(data0.v, data.v) /\ IsPrefix(est0, est_data)
        /\ data.some => Len(Appended) >= n
        /\ Len(EstAppended) >= n /\ Len(EstAppended) <= n + 1
        /\ \A j \in 1..n :
              /\ Appended[j][1] = sensed_actions[j]
              /\ EstAppended[j] = Appended[j]

C11_Witness ==
    /\ InLoopFailure /\ result.error = "SampleError"
    /\ n = 1 /\ Len(Appended) = 1 /\ Len(EstAppended) = 1

SampleRaised == op = "step" /\ pc = "raised" /\ result.error = "SampleError"

\* C12 as claimed: when the process rejects a selected region, by raising or
\* by returning null, the round is aborted and no record for that region is
\* added to the dataset or to the estimator (stated for a dataset that is a list).
C12_RejectedNeverRecorded ==
    /\ SampleRaised => Len(Appended) = n /\ Len(EstAppended) = n
    /\ (op = "step" /\ data.some) =>
          /\ \A j \in DOMAIN Appended : Appended[j][2].some
          /\ \A j \in DOMAIN EstAppended : EstAppended[j][2].some

\* C12 as amended: when process.sample raises on a selected region the round
\* is aborted and no record for that region is added to the dataset or to the
\* estimator; a null returned by process.sample does not abort the round: its
\* record is passed to add_data like any other.
C12_RaiseAbortsNullIsRecorded ==
    /\ SampleRaised =>
          /\ n < Len(sensed_actions)
          /\ Len(Appended) = n /\ Len(EstAppended) = n
          /\ SenseEvents = n + 1
    /\ (op = "step" /\ pc \in {"selected", "returned"}) =>
          /\ Len(Appended) = n /\ Len(EstAppended) = n
          /\ \A j \in 1..n : Appended[j][1] = sensed_actions[j]
                             /\ Appended[j][2] \in ObsVals(sensed_actions[j])

C12_Witness ==
    /\ SampleRaised /\ n = 1
    /\ Len(Appended) = 1 /\ ~Appended[1][2].some

\* C13: a step that completes with topk = k leaves the dataset longer by
\* exactly k records and count_events larger by exactly the observation count
\* the step returns.
C13_StepGrowth ==
    StepReturned =>
        /\ Len(data.v) = Len(data0.v) + topk
        /\ Cardinality(PointSlots(data.v)) =
              Cardinality(PointSlots(data0.v)) + result.count

C13_Witness ==
    /\ StepReturned /\ topk = 2 /\ result.count = 2
    /\ Len(data.v) = 2

QueryOps == {"count_events", "best_point_so_far"}

\* C14: count_events and best_point_so_far change neither the dataset, nor the
\* estimator's records, nor t, and a count_events call that directly follows
\* another returns the same value.
C14_QueriesChangeNothing ==
    [][/\ op' \in QueryOps =>
             data' = data /\ est_data' = est_data /\ t' = t /\ rate' = rate
       /\ (op = "count_events" /\ pc = "returned" /\
           op' = "count_events" /\ pc' = "returned") =>
             result'.total = result.total]_vars

C14_Witness ==
    /\ op = "count_events" /\ pc = "returned" /\ result.total = 4
    /\ data = data0 /\ est_data = est0 /\ t = 1

\* C15: in a round where the schedule returns 1 and the estimator
\* holds a fitted rate, the exploitation branch is taken for every draw p.
C15_OneScheduleExploits ==
    (pc = "scored" /\ epsilon = "one" /\ rate /\ actions # <<>>) =>
        /\ branch = "exploit"
        /\ \A i \in DOMAIN actions : ScoreEq(scores[i], <<means[i], w[actions[i]]>>)

\* the step has just selected one region from exploitation scores
ExploitChoice ==
    /\ op = "step" /\ pc = "selected" /\ n = 0
    /\ branch = "exploit" /\ topk = 1

Chosen == best_indices[1] + 1

\* C16: in the exploitation branch with topk = 1 a step never
\* chooses a region when another candidate has the same mean value and a
\* strictly lower cost.
C16_LowerCostWins ==
    ExploitChoice =>
        ~ \E i \in DOMAIN actions :
              means[i] = means[Chosen] /\ w[actions[i]] < w[actions[Chosen]]

\* C16, amended: in the exploitation branch with topk = 1 a step never
\* chooses a region when another candidate has the same strictly positive
\* mean value and a strictly lower cost.
C16_LowerCostWinsPositive ==
    ExploitChoice =>
        ~ \E i \in DOMAIN actions :
              /\ means[i] = means[Chosen] /\ means[Chosen] > 0
              /\ w[actions[i]] < w[actions[Chosen]]

C16_Witness ==
    /\ ExploitChoice
    /\ \E i \in DOMAIN actions :
          /\ means[i] = means[Chosen] /\ means[Chosen] > 0
          /\ w[actions[i]] > w[actions[Chosen]]

Min(a, b) == IF a <= b THEN a ELSE b

\* C17: for every topk = k and every candidate count m, k > m included, a
\* step never chooses, and never returns, more than min(k, m) regions and
\* never appends more than min(k, m) records to the dataset.
C17_AtMostMinKM ==
    op = "step" =>
        LET bound == Min(topk, Len(actions)) IN
        /\ Len(sensed_actions) <= bound
        /\ n <= bound
        /\ data.some => Len(Appended) <= bound
        /\ StepReturned => /\ Len(result.sensed_actions) <= bound
                           /\ Len(result.best_indices) <= bound

\* a step asked for two regions out of one candidate: it raises, nothing chosen
C17_Witness ==
    /\ op = "step" /\ pc = "raised" /\ result = Raised("RuntimeError")
    /\ topk = 2 /\ Len(actions) = 1
    /\ sensed_actions = <<>> /\ data = data0 /\ est_data = est0

FitEvents == {"fit", "fit_raise"}
LoopEvents == {"sense", "add_data"}

\* C18: within every step the order of events is fixed: the fit is the first
\* event and happens once, the scoring is the second and happens once, the
\* selection is the third, every sense and every add_data comes after the
\* selection; so up to the selection the dataset and the estimator's records
\* are those the call started with, and the records sensed in the round are
\* added behind the records the estimator was fitted on.
C18_FixedOrder ==
    op = "step" =>
        /\ trace # <<>>
        /\ \A i \in DOMAIN trace :
              /\ trace[i] \in FitEvents <=> i = 1
              /\ trace[i] = "score" <=> i = 2
              /\ trace[i] = "select" <=> i = 3
              /\ trace[i] \in LoopEvents => i > 3
              /\ trace[i] = "add_data" => trace[i - 1] = "sense"
              /\ trace[i] = "return" => i = Len(trace) /\ i > 3
        /\ Len(trace) <= 3 => data = data0 /\ est_data = est0
        /\ pc = "fitted" <=> Len(trace) = 1 /\ trace[1] = "fit"
        /\ pc = "scored" <=> Len(trace) = 2
        /\ IsPrefix(est0, est_data)
        /\ StepReturned => trace[Len(trace)] = "return"

\* a second round has completed: its fit saw the record of the first round,
\* and its own record came after its scoring
C18_Witness ==
    /\ StepReturned /\ t = 2
    /\ trace = <<"fit", "score", "select", "sense", "add_data", "return">>
    /\ Len(est0) = 1 /\ Len(est_data) = 2

RECURSIVE SumCost(_, _)
SumCost(cf, regs) ==
    IF regs = <<>> THEN 0 ELSE cf[Head(regs)] + SumCost(cf, Tail(regs))

\* C19: the cost a completed step returns is the sum of the cost function
\* over the regions chosen in that round, each counted once; the accumulator
\* starts at 0 in every round, so nothing of an earlier round is in it.
C19_RoundCost ==
    /\ StepReturned => result.cost = SumCost(w, result.sensed_actions)
    /\ (op = "step" /\ pc \in {"fitted", "scored"}) => cost = 0
    /\ (op = "step" /\ pc = "selected") =>
           cost = SumCost(w, SubSeq(sensed_actions, 1, n))

\* a second round returns the cost of its own region only
C19_Witness ==
    /\ StepReturned /\ t = 2 /\ data.some /\ Len(data0.v) = 1
    /\ w[data0.v[1][1]] = 4
    /\ result.sensed_actions = <<2>> /\ result.cost = 2

\* C20: after construction and after every add_data or step call, returned
\* or raised, the records the estimator has ingested are exactly the records
\* of the policy's dataset, each once and in the same order.
C20_NeverDiverge ==
    pc \in Rest => est_data = load_data(data)
====
